---- MODULE Spec2Model ----
(***************************************************************************)
(* vatsim-open-data: the consistency checks of OpenData (volume levels,    *)
(* duplicate positions, position references) and the reconciliation of the *)
(* dataset against the VATEUD8 list, as run by main().                     *)
(*                                                                         *)
(* Strings are sequences of one-character strings, ordered as Rust orders  *)
(* String (bytewise lexicographic).  Option<T> is a sequence of length at  *)
(* most one: None is << >>, Some(x) is <<x>>.  A HashMap is a function     *)
(* whose DOMAIN is its key set; iterating it yields its entries in an      *)
(* unspecified order, modelled as a choice among all orders.               *)
(***************************************************************************)
EXTENDS Integers, Sequences, FiniteSets, TLC

(***************************************************************************)
(* Strings                                                                 *)
(***************************************************************************)
Chars == {"A", "B", "C", "D", "E", "I", "P", "S", "T", "X", "Z", "_"}

\* the byte value of a character (ASCII)
Ord(c) ==
    CASE c = "A" -> 65 [] c = "B" -> 66 [] c = "C" -> 67 [] c = "D" -> 68
      [] c = "E" -> 69 [] c = "I" -> 73 [] c = "P" -> 80 [] c = "S" -> 83
      [] c = "T" -> 84 [] c = "X" -> 88 [] c = "Z" -> 90 [] c = "_" -> 95

\* str::cmp: s < t, bytewise lexicographic
RECURSIVE StrLess(_, _)
StrLess(s, t) ==
    IF t = << >> THEN FALSE
    ELSE IF s = << >> THEN TRUE
    ELSE IF Ord(Head(s)) # Ord(Head(t)) THEN Ord(Head(s)) < Ord(Head(t))
    ELSE StrLess(Tail(s), Tail(t))

\* str::starts_with
starts_with(s, p) == Len(p) <= Len(s) /\ SubSeq(s, 1, Len(p)) = p

\* str::ends_with
ends_with(s, p) ==
    Len(p) <= Len(s) /\ SubSeq(s, Len(s) - Len(p) + 1, Len(s)) = p

\* s.split('_').next().unwrap(): the part of s before its first underscore,
\* all of s when it has none
RECURSIVE split_first(_)
split_first(s) ==
    IF s = << >> \/ Head(s) = "_" THEN << >>
    ELSE <<Head(s)>> \o split_first(Tail(s))

\* Ord for the tuple (&String, &String) that sorted_by_key compares
KeyLess(a, b) == StrLess(a[1], b[1]) \/ (a[1] = b[1] /\ StrLess(a[2], b[2]))

\* itertools sorted_by_key on a sequence of keys: a stable sort (insertion
\* of each element after the elements not greater than it)
RECURSIVE InsertByKey(_, _)
InsertByKey(sorted, k) ==
    IF sorted = << >> THEN <<k>>
    ELSE IF KeyLess(k, Head(sorted)) THEN <<k>> \o sorted
    ELSE <<Head(sorted)>> \o InsertByKey(Tail(sorted), k)

RECURSIVE sorted_by_key(_)
sorted_by_key(s) ==
    IF s = << >> THEN << >>
    ELSE InsertByKey(sorted_by_key(SubSeq(s, 1, Len(s) - 1)), s[Len(s)])

(***************************************************************************)
(* Sequences and maps                                                      *)
(***************************************************************************)
RECURSIVE Flatten(_)
Flatten(ss) == IF ss = << >> THEN << >> ELSE Head(ss) \o Flatten(Tail(ss))

Range(s) == {s[i] : i \in DOMAIN s}

\* the orders in which iterating a HashMap with key set S may yield its keys
Iter(S) ==
    {q \in [1..Cardinality(S) -> S] : \A i, j \in DOMAIN q : i # j => q[i] # q[j]}

EmptyMap == << >>
None == << >>
Some(x) == <<x>>

(***************************************************************************)
(* Volume::check_level and FIR::run_checks                                 *)
(*                                                                         *)
(* A Volume is [lower_level, upper_level]; its lateral_bounds are read by  *)
(* no check.  A Result<(), E> is "Ok" or the error.                        *)
(***************************************************************************)
MaxFL == 999

\* check_level testing the upper bound first
check_level_upper_first(vol) ==
    IF vol.upper_level > MaxFL THEN "UpperLevelMaximum"
    ELSE IF vol.lower_level >= vol.upper_level THEN "LowerLevelGreater"
    ELSE "Ok"

\* check_level accepting equal levels
check_level_strict(vol) ==
    IF vol.lower_level > vol.upper_level THEN "LowerLevelGreater"
    ELSE IF vol.upper_level > MaxFL THEN "UpperLevelMaximum"
    ELSE "Ok"

check_level(vol) ==
    IF vol.lower_level >= vol.upper_level THEN "LowerLevelGreater"
    ELSE IF vol.upper_level > MaxFL THEN "UpperLevelMaximum"
    ELSE "Ok"

\* FIR::run_checks with self.volumes.iter() yielding the ids in `order`:
\* the (id, error) pairs of the volumes whose check_level is an Err
fir_run_checks(fir, order) ==
    LET failed == SelectSeq(order, LAMBDA id : check_level(fir.volumes[id]) # "Ok")
    IN  [i \in DOMAIN failed |-> <<failed[i], check_level(fir.volumes[failed[i]])>>]

\* the closure of OpenData::run_checks wrapping one FIR's errors
invalid_volumes(fir_name, fir, order) ==
    LET es == fir_run_checks(fir, order)
    IN  [i \in DOMAIN es |-> <<"InvalidVolume", fir_name, es[i][1], es[i][2]>>]

(***************************************************************************)
(* OpenData::positions / sectors / airports: the (fir, id) keys in the     *)
(* orders the flat_map over the two HashMaps can yield (the entries of one *)
(* FIR are contiguous).                                                    *)
(***************************************************************************)
Grouped(q) ==
    \A i, k \in DOMAIN q :
        (i < k /\ q[i][1] = q[k][1]) => \A j \in i..k : q[j][1] = q[i][1]

EntityKeys(od, kind) ==
    UNION {{<<f, id>> : id \in DOMAIN od.firs[f][kind]} : f \in DOMAIN od.firs}

positions(od) == {q \in Iter(EntityKeys(od, "positions")) : Grouped(q)}
sectors(od) == {q \in Iter(EntityKeys(od, "sectors")) : Grouped(q)}
airports(od) == {q \in Iter(EntityKeys(od, "airports")) : Grouped(q)}

(***************************************************************************)
(* OpenData::position_dupe_check                                           *)
(* A Position is [frequency, prefix, station_type]; no check reads its     *)
(* other fields.                                                           *)
(***************************************************************************)
\* the filter closure: (fir, pos_id, pos) is reported against other
\* dupe_filter excluding every position with the same fir or the same id
dupe_filter_both_differ(a, pos, b, other_pos) ==
    /\ (a[1] # b[1] /\ a[2] # b[2])
    /\ starts_with(pos.prefix, other_pos.prefix)
    /\ pos.frequency = other_pos.frequency
    /\ pos.station_type = other_pos.station_type

dupe_filter(a, pos, b, other_pos) ==
    /\ (a[1] # b[1] \/ a[2] # b[2])
    /\ starts_with(pos.prefix, other_pos.prefix)
    /\ pos.frequency = other_pos.frequency
    /\ pos.station_type = other_pos.station_type

\* the traversal order of the check: positions() sorted by (fir, pos_id)
\* the traversal without the sort
dupe_order_unsorted(it) == it

dupe_order(it) == sorted_by_key(it)

\* `it` is what self.positions() yielded
position_dupe_check(od, it) ==
    LET ps == dupe_order(it)
        pos(k) == od.firs[k[1]].positions[k[2]]
        others(a) == SelectSeq(ps, LAMBDA b : dupe_filter(a, pos(a), b, pos(b)))
        errors(a) ==
            [j \in DOMAIN others(a) |->
                <<"DuplicatePosition", a[1], a[2], others(a)[j][1], others(a)[j][2]>>]
    IN  Flatten([i \in DOMAIN ps |-> errors(ps[i])])

(***************************************************************************)
(* OpenData::position_ref_check                                            *)
(* A PositionReference is [fir, id] with fir an Option; a Sector or an     *)
(* Airport is [position_priority], a sequence of sequences of references.  *)
(***************************************************************************)
\* pos_ref.fir.as_ref().unwrap_or(fir_name)
ref_fir(pos_ref, fir_name) ==
    IF pos_ref.fir = None THEN fir_name ELSE pos_ref.fir[1]

\* the filter closure: self.firs.get(..).and_then(|fir| fir.positions.get(..)).is_none()
\* ref_is_none looking up the region only
ref_is_none_region_only(od, pos_ref, fir_name) ==
    ref_fir(pos_ref, fir_name) \notin DOMAIN od.firs

ref_is_none(od, pos_ref, fir_name) ==
    LET f == ref_fir(pos_ref, fir_name)
    IN  ~(f \in DOMAIN od.firs /\ pos_ref.id \in DOMAIN od.firs[f].positions)

\* the flat_map closure for one sector or airport
owner_ref_errors(od, kind, field, k) ==
    LET refs == Flatten(od.firs[k[1]][field][k[2]].position_priority)
        bad == SelectSeq(refs, LAMBDA r : ref_is_none(od, r, k[1]))
    IN  [i \in DOMAIN bad |->
            <<"InvalidPositionReference", kind, k[1], k[2],
              ref_fir(bad[i], k[1]), bad[i].id>>]

sector_errors(od, sit) ==
    LET ss == sorted_by_key(sit)
    IN  Flatten([i \in DOMAIN ss |-> owner_ref_errors(od, "Sector", "sectors", ss[i])])

airport_errors(od, ait) ==
    LET as == sorted_by_key(ait)
    IN  Flatten([i \in DOMAIN as |-> owner_ref_errors(od, "Airport", "airports", as[i])])

\* position_ref_check chaining the sector errors after the airport errors
position_ref_check_airports_first(od, sit, ait) ==
    airport_errors(od, ait) \o sector_errors(od, sit)

\* `sit` and `ait` are what self.sectors() and self.airports() yielded
position_ref_check(od, sit, ait) == sector_errors(od, sit) \o airport_errors(od, ait)

(***************************************************************************)
(* Vateud8Data::check                                                      *)
(* A Vateud8Position is [region, name, frequency, prefix]; callsign and    *)
(* updated_at are read by no check.  Config is [vateud8 |-> [ignore_regions,*)
(* ignore_extra], firs |-> name -> [vateud8_region, vateud8_ignore]]; the  *)
(* Vecs of the configuration are only asked `contains`, so they are sets.  *)
(***************************************************************************)
\* v8_matches with the frequency test bound to the first alternative only
v8_matches_precedence(vateud8_pos, position) ==
    \/ /\ vateud8_pos.frequency = position.frequency
       /\ vateud8_pos.prefix # << >>
       /\ starts_with(vateud8_pos.prefix, position.prefix)
    \/ starts_with(position.prefix, split_first(vateud8_pos.name))

\* the predicate of the find closure (Phase A) and of the any closure (Phase B)
v8_matches(vateud8_pos, position) ==
    /\ vateud8_pos.frequency = position.frequency
    /\ \/ (vateud8_pos.prefix # << >>
           /\ starts_with(vateud8_pos.prefix, position.prefix))
       \/ starts_with(position.prefix, split_first(vateud8_pos.name))

\* find returning the last element satisfying the predicate
RECURSIVE find_last(_, _)
find_last(list, position) ==
    IF list = << >> THEN None
    ELSE IF v8_matches(list[Len(list)], position) THEN Some(list[Len(list)])
    ELSE find_last(SubSeq(list, 1, Len(list) - 1), position)

\* Iterator::find: the first element of list satisfying the predicate
RECURSIVE find(_, _)
find(list, position) ==
    IF list = << >> THEN None
    ELSE IF v8_matches(Head(list), position) THEN Some(Head(list))
    ELSE find(Tail(list), position)

\* the filter_map closure of Phase A for one position
phase_a_position(list, fir_name, position_name, position, v8_region) ==
    LET found == find(list, position)
    IN  IF found # None
        THEN IF found[1].region # v8_region
             THEN <<<<"RegionMismatch", fir_name, position_name,
                      found[1].region, v8_region>>>>
             ELSE << >>
        ELSE <<<<"NotFound", fir_name, position_name>>>>

\* phase_a_fir looking up the exempt positions too
phase_a_fir_no_ignore(list, od, name, order) ==
    IF name \in DOMAIN od.config.firs /\ od.config.firs[name].vateud8_region # None
    THEN Flatten([i \in DOMAIN order |->
             phase_a_position(list, name, order[i], od.firs[name].positions[order[i]],
                              od.config.firs[name].vateud8_region[1])])
    ELSE << >>

\* Phase A for one FIR, fir.positions.iter() yielding the ids in `order`:
\* nothing unless the FIR has a configuration that sets vateud8_region
phase_a_fir(list, od, name, order) ==
    IF name \in DOMAIN od.config.firs /\ od.config.firs[name].vateud8_region # None
    THEN LET fir_config == od.config.firs[name]
             kept == SelectSeq(order, LAMBDA id : id \notin fir_config.vateud8_ignore)
         IN  Flatten([i \in DOMAIN kept |->
                 phase_a_position(list, name, kept[i],
                                  od.firs[name].positions[kept[i]],
                                  fir_config.vateud8_region[1])])
    ELSE << >>

\* phase_b_filter dropping an entry only when all three exclusions apply
phase_b_filter_all_three(od, v8_pos) ==
    \/ ~ends_with(v8_pos.name, <<"_", "A", "T", "I", "S">>)
    \/ v8_pos.region \notin od.config.vateud8.ignore_regions
    \/ v8_pos.name \notin od.config.vateud8.ignore_extra

\* the filter closure of Phase B
phase_b_filter(od, v8_pos) ==
    /\ ~ends_with(v8_pos.name, <<"_", "A", "T", "I", "S">>)
    /\ v8_pos.region \notin od.config.vateud8.ignore_regions
    /\ v8_pos.name \notin od.config.vateud8.ignore_extra

\* phase_b_any passing over the positions listed in vateud8_ignore
phase_b_any_not_ignored(od, vateud8_pos) ==
    \E fir_name \in DOMAIN od.config.firs :
        /\ od.config.firs[fir_name].vateud8_region = Some(vateud8_pos.region)
        /\ fir_name \in DOMAIN od.firs
        /\ \E id \in DOMAIN od.firs[fir_name].positions :
               /\ id \notin od.config.firs[fir_name].vateud8_ignore
               /\ v8_matches(vateud8_pos, od.firs[fir_name].positions[id])

\* phase_b_any with the two prefix tests turned round
phase_b_any_reversed_prefix(od, vateud8_pos) ==
    \E fir_name \in DOMAIN od.config.firs :
        /\ od.config.firs[fir_name].vateud8_region = Some(vateud8_pos.region)
        /\ fir_name \in DOMAIN od.firs
        /\ \E id \in DOMAIN od.firs[fir_name].positions :
               LET position == od.firs[fir_name].positions[id]
               IN  /\ vateud8_pos.frequency = position.frequency
                   /\ \/ (vateud8_pos.prefix # << >>
                          /\ starts_with(position.prefix, vateud8_pos.prefix))
                      \/ starts_with(split_first(vateud8_pos.name), position.prefix)

\* phase_b_any searching the positions of every FIR of the dataset
phase_b_any_every_fir(od, vateud8_pos) ==
    \E fir_name \in DOMAIN od.firs :
        \E id \in DOMAIN od.firs[fir_name].positions :
            v8_matches(vateud8_pos, od.firs[fir_name].positions[id])

\* phase_b_any searching the positions of every configured FIR
phase_b_any_region(od, vateud8_pos) ==
    \E fir_name \in DOMAIN od.config.firs :
        /\ od.config.firs[fir_name].vateud8_region # None
        /\ fir_name \in DOMAIN od.firs
        /\ \E id \in DOMAIN od.firs[fir_name].positions :
               v8_matches(vateud8_pos, od.firs[fir_name].positions[id])

\* the condition of the filter_map closure of Phase B: some position of a FIR
\* configured with the entry's region matches it
phase_b_any(od, vateud8_pos) ==
    \E fir_name \in DOMAIN od.config.firs :
        /\ od.config.firs[fir_name].vateud8_region = Some(vateud8_pos.region)
        /\ fir_name \in DOMAIN od.firs
        /\ \E id \in DOMAIN od.firs[fir_name].positions :
               v8_matches(vateud8_pos, od.firs[fir_name].positions[id])

phase_b(list, od) ==
    LET kept == SelectSeq(list, LAMBDA e : phase_b_filter(od, e))
        extra == SelectSeq(kept, LAMBDA e : ~phase_b_any(od, e))
    IN  [i \in DOMAIN extra |-> <<"Superfluous", extra[i].name>>]

\* Vateud8Data::check as a whole: open_data.firs.iter() yields the FIRs in
\* fir_order and the positions of FIR f are yielded in position_order[f]
check(list, od, fir_order, position_order) ==
    Flatten([i \in DOMAIN fir_order |->
                phase_a_fir(list, od, fir_order[i], position_order[fir_order[i]])])
        \o phase_b(list, od)

(***************************************************************************)
(* FIR::from_folder and OpenData::from_path                                *)
(* The file system is [dir_ok, config, firs]: config and each of a FIR     *)
(* folder's four sources is [ok, data], ok being whether the file can be   *)
(* read and deserialized.                                                  *)
(***************************************************************************)
\* X::from_toml(..).unwrap_or_else(|e| HashMap::default())
unwrap_or_default(source) == IF source.ok THEN source.data ELSE EmptyMap

\* from_folder giving up all four collections when one source fails
from_folder_all_or_nothing(folder) ==
    IF folder.airports.ok /\ folder.positions.ok /\ folder.sectors.ok /\ folder.volumes.ok
    THEN [airports  |-> folder.airports.data,
          positions |-> folder.positions.data,
          sectors   |-> folder.sectors.data,
          volumes   |-> folder.volumes.data]
    ELSE [airports  |-> EmptyMap, positions |-> EmptyMap,
          sectors   |-> EmptyMap, volumes   |-> EmptyMap]

from_folder(folder) ==
    [airports  |-> unwrap_or_default(folder.airports),
     positions |-> unwrap_or_default(folder.positions),
     sectors   |-> unwrap_or_default(folder.sectors),
     volumes   |-> unwrap_or_default(folder.volumes)]

\* Ok(OpenData) as <<od>>, Err as << >>
from_path(files) ==
    IF files.dir_ok /\ files.config.ok
    THEN LET entries == {f \in DOMAIN files.firs : files.firs[f].entry_ok}
         IN  Some([firs   |-> [f \in entries |-> from_folder(files.firs[f])],
                   config |-> files.config.data])
    ELSE None

\* run_checks returning at the first check that found errors
run_checks_fail_fast(volume_errs, dupe, refs) ==
    IF volume_errs # << >> THEN volume_errs
    ELSE IF dupe # << >> THEN dupe
    ELSE refs

\* the chain of OpenData::run_checks: the volume errors collected from the
\* FIRs, then the two chained checks' errors
run_checks_chain(volume_errs, dupe, refs) == volume_errs \o dupe \o refs

\* OpenData::run_checks as a whole: self.firs.iter() yields the FIRs in
\* fir_order, the volumes of FIR f are yielded in volume_order[f], and pit,
\* sit and ait are what positions(), sectors() and airports() yield
run_checks(od, fir_order, volume_order, pit, sit, ait) ==
    run_checks_chain(
        Flatten([i \in DOMAIN fir_order |->
                    invalid_volumes(fir_order[i], od.firs[fir_order[i]],
                                    volume_order[fir_order[i]])]),
        position_dupe_check(od, pit),
        position_ref_check(od, sit, ait))

(***************************************************************************)
(* The state of a run of main()                                            *)
(***************************************************************************)
VARIABLES
    fs,          \* the dataset folder given on the command line
    registry,    \* the rows of the VATEUD8 table the URL serves
    pc,          \* where main() is
    open_data,   \* the OpenData from_path returned (<< >> before)
    dupe_errs,   \* position_dupe_check().err().unwrap_or_default()
    ref_errs,    \* position_ref_check().err().unwrap_or_default()
    visited,     \* the FIRs self.firs.iter() has yielded in run_checks
    errs,        \* the errors run_checks has collected
    log,         \* the errors main() has written with error!
    vateud8,     \* the Vateud8Data get returned (<< >> before)
    v8_visited,  \* the FIRs open_data.firs.iter() has yielded in check
    v8_errs      \* the errors check has collected

vars == <<fs, registry, pc, open_data, dupe_errs, ref_errs, visited, errs, log,
          vateud8, v8_visited, v8_errs>>

(***************************************************************************)
(* main(), step by step                                                    *)
(***************************************************************************)
\* main.rs:21  OpenData::from_path(..)?
FromPath ==
    /\ pc = "start"
    /\ LET r == from_path(fs)
       IN  IF r = None
           THEN pc' = "load_failed" /\ UNCHANGED open_data
           ELSE pc' = "dupe" /\ open_data' = r[1]
    /\ UNCHANGED <<fs, registry, dupe_errs, ref_errs, visited, errs, log,
                   vateud8, v8_visited, v8_errs>>

\* lib.rs:201  the argument of the first chain is evaluated when the chain is built
PositionDupeCheck ==
    /\ pc = "dupe"
    /\ \E it \in positions(open_data) :
           dupe_errs' = position_dupe_check(open_data, it)
    /\ pc' = "ref"
    /\ UNCHANGED <<fs, registry, open_data, ref_errs, visited, errs, log,
                   vateud8, v8_visited, v8_errs>>

\* the sector or airport with the resolved region stored in its references
resolved_owner(fir_name, owner) ==
    [position_priority |->
        [g \in DOMAIN owner.position_priority |->
            [i \in DOMAIN owner.position_priority[g] |->
                [owner.position_priority[g][i] EXCEPT
                    !.fir = Some(ref_fir(owner.position_priority[g][i], fir_name))]]]]

\* PositionRefCheck storing the region it resolved in each reference
PositionRefCheck_write_back ==
    /\ pc = "ref"
    /\ \E sit \in sectors(open_data) : \E ait \in airports(open_data) :
           ref_errs' = position_ref_check(open_data, sit, ait)
    /\ open_data' =
           [open_data EXCEPT !.firs =
               [f \in DOMAIN open_data.firs |->
                   [open_data.firs[f] EXCEPT
                       !.sectors = [id \in DOMAIN open_data.firs[f].sectors |->
                                       resolved_owner(f, open_data.firs[f].sectors[id])],
                       !.airports = [id \in DOMAIN open_data.firs[f].airports |->
                                       resolved_owner(f, open_data.firs[f].airports[id])]]]]
    /\ pc' = "volumes"
    /\ UNCHANGED <<fs, registry, dupe_errs, visited, errs, log,
                   vateud8, v8_visited, v8_errs>>

\* lib.rs:202  the argument of the second chain
PositionRefCheck ==
    /\ pc = "ref"
    /\ \E sit \in sectors(open_data) : \E ait \in airports(open_data) :
           ref_errs' = position_ref_check(open_data, sit, ait)
    /\ pc' = "volumes"
    /\ UNCHANGED <<fs, registry, open_data, dupe_errs, visited, errs, log,
                   vateud8, v8_visited, v8_errs>>

\* lib.rs:187-200  collect() drives self.firs.iter(): one FIR's volume checks
VolumeChecksFir ==
    /\ pc = "volumes"
    /\ \E fir_name \in DOMAIN open_data.firs \ visited :
         \E order \in Iter(DOMAIN open_data.firs[fir_name].volumes) :
           /\ errs' = errs \o invalid_volumes(fir_name, open_data.firs[fir_name], order)
           /\ visited' = visited \cup {fir_name}
    /\ UNCHANGED <<fs, registry, pc, open_data, dupe_errs, ref_errs, log,
                   vateud8, v8_visited, v8_errs>>

\* lib.rs:201-208  the FIRs are exhausted: the chained errors follow
RunChecksCollect ==
    /\ pc = "volumes"
    /\ visited = DOMAIN open_data.firs
    /\ errs' = run_checks_chain(errs, dupe_errs, ref_errs)
    /\ pc' = "log_checks"
    /\ UNCHANGED <<fs, registry, open_data, dupe_errs, ref_errs, visited, log,
                   vateud8, v8_visited, v8_errs>>

\* LogChecks going on to the fetch without writing the errors
LogChecks_unwritten ==
    /\ pc = "log_checks"
    /\ pc' = "fetch"
    /\ UNCHANGED <<fs, registry, open_data, dupe_errs, ref_errs, visited, errs,
                   log, vateud8, v8_visited, v8_errs>>

\* main.rs:23-27
LogChecks ==
    /\ pc = "log_checks"
    /\ log' = log \o errs
    /\ pc' = "fetch"
    /\ UNCHANGED <<fs, registry, open_data, dupe_errs, ref_errs, visited, errs,
                   vateud8, v8_visited, v8_errs>>

\* main.rs:30  vateud8::get(..) returns Ok
FetchOk ==
    /\ pc = "fetch"
    /\ vateud8' = [positions |-> registry]
    /\ pc' = "phase_a"
    /\ UNCHANGED <<fs, registry, open_data, dupe_errs, ref_errs, visited, errs,
                   log, v8_visited, v8_errs>>

\* main.rs:30  vateud8::get(..) returns Err(Fetch): unwrap() panics
FetchFail ==
    /\ pc = "fetch"
    /\ pc' = "fetch_panicked"
    /\ UNCHANGED <<fs, registry, open_data, dupe_errs, ref_errs, visited, errs,
                   log, vateud8, v8_visited, v8_errs>>

\* vateud8.rs:91-131  one FIR of Phase A
V8CheckFir ==
    /\ pc = "phase_a"
    /\ \E name \in DOMAIN open_data.firs \ v8_visited :
         \E order \in Iter(DOMAIN open_data.firs[name].positions) :
           /\ v8_errs' = v8_errs \o phase_a_fir(vateud8.positions, open_data, name, order)
           /\ v8_visited' = v8_visited \cup {name}
    /\ UNCHANGED <<fs, registry, pc, open_data, dupe_errs, ref_errs, visited,
                   errs, log, vateud8>>

\* V8PhaseB putting the Phase B errors in front
V8PhaseB_first ==
    /\ pc = "phase_a"
    /\ v8_visited = DOMAIN open_data.firs
    /\ v8_errs' = phase_b(vateud8.positions, open_data) \o v8_errs
    /\ pc' = "log_v8"
    /\ UNCHANGED <<fs, registry, open_data, dupe_errs, ref_errs, visited, errs,
                   log, vateud8, v8_visited>>

\* vateud8.rs:132-173  the FIRs are exhausted: the chained Phase B follows
V8PhaseB ==
    /\ pc = "phase_a"
    /\ v8_visited = DOMAIN open_data.firs
    /\ v8_errs' = v8_errs \o phase_b(vateud8.positions, open_data)
    /\ pc' = "log_v8"
    /\ UNCHANGED <<fs, registry, open_data, dupe_errs, ref_errs, visited, errs,
                   log, vateud8, v8_visited>>

\* main.rs:31-39
LogV8 ==
    /\ pc = "log_v8"
    /\ log' = log \o v8_errs
    /\ pc' = "done"
    /\ UNCHANGED <<fs, registry, open_data, dupe_errs, ref_errs, visited, errs,
                   vateud8, v8_visited, v8_errs>>

Next ==
    \/ FromPath
    \/ PositionDupeCheck
    \/ PositionRefCheck
    \/ VolumeChecksFir
    \/ RunChecksCollect
    \/ LogChecks
    \/ FetchOk
    \/ FetchFail
    \/ V8CheckFir
    \/ V8PhaseB
    \/ LogV8

(***************************************************************************)
(* Inputs: the datasets and registries the runs are checked on             *)
(***************************************************************************)
FirNames == {<<"A", "B">>, <<"B">>}
PositionIds == {<<"D", "P">>, <<"P">>}
SectorIds == {<<"S">>, <<"S", "A">>}
AirportIds == {<<"E", "D">>, <<"E", "D", "D">>}
VolumeIds == {<<"C">>, <<"C", "T">>}

\* the maps from at most n of Keys to Vals, keyed by (fir, id)
FlatMaps(Keys, Vals, n) ==
    UNION {[D -> Vals] : D \in {D \in SUBSET Keys : Cardinality(D) <= n}}

\* the HashMap of FIR f in a map keyed by (fir, id)
Nest(flat, f) ==
    [id \in {k[2] : k \in {k \in DOMAIN flat : k[1] = f}} |-> flat[<<f, id>>]]

DefaultConfig ==
    [vateud8 |-> [ignore_regions |-> {}, ignore_extra |-> {}], firs |-> EmptyMap]

NoEntities == [pos |-> EmptyMap, sec |-> EmptyMap, apt |-> EmptyMap, vol |-> EmptyMap,
               cfg |-> DefaultConfig, reg |-> << >>, broken |-> {}]

\* the folder of an input: every FIR folder of FirNames, each source holding
\* the input's entities of that FIR; the sources in in.broken cannot be read
Folder(in) ==
    [dir_ok |-> TRUE,
     config |-> [ok |-> <<"config">> \notin in.broken, data |-> in.cfg],
     firs   |-> [f \in FirNames |->
        [entry_ok  |-> TRUE,
         positions |-> [ok |-> <<f, "positions">> \notin in.broken, data |-> Nest(in.pos, f)],
         sectors   |-> [ok |-> <<f, "sectors">> \notin in.broken, data |-> Nest(in.sec, f)],
         volumes   |-> [ok |-> <<f, "volumes">> \notin in.broken, data |-> Nest(in.vol, f)],
         airports  |-> [ok |-> <<f, "airports">> \notin in.broken, data |-> Nest(in.apt, f)]]]]

InitFrom(Inputs) ==
    /\ \E in \in Inputs : fs = Folder(in) /\ registry = in.reg
    /\ pc = "start"
    /\ open_data = << >>
    /\ dupe_errs = << >>
    /\ ref_errs = << >>
    /\ visited = {}
    /\ errs = << >>
    /\ log = << >>
    /\ vateud8 = << >>
    /\ v8_visited = {}
    /\ v8_errs = << >>

\* volumes: levels around the maximal flight level
MaxVolumes == 2
Levels == {MaxFL - 1, MaxFL, MaxFL + 1, MaxFL + 2}
Volumes == [lower_level : Levels, upper_level : Levels]

VolumeInputs ==
    {[NoEntities EXCEPT !.vol = v] :
        v \in FlatMaps(FirNames \X VolumeIds, Volumes, MaxVolumes)}

InitVolumes == InitFrom(VolumeInputs)
SpecVolumes == InitVolumes /\ [][Next]_vars

\* positions: two frequencies, two prefixes one a prefix of the other, two
\* station types
MaxPositions == 3
Frequencies == {132305000, 134150000}
Prefixes == {<<"E">>, <<"E", "D">>}
StationTypes == {"APP", "CTR"}
Positions == [frequency : Frequencies, prefix : Prefixes, station_type : StationTypes]

PositionInputs ==
    {[NoEntities EXCEPT !.pos = p] :
        p \in FlatMaps(FirNames \X PositionIds, Positions, MaxPositions)}

InitPositions == InitFrom(PositionInputs)
SpecPositions == InitPositions /\ [][Next]_vars

\* references: to the owner's region, to a region of the dataset and to a
\* region that is not in it; at most MaxRefs references in the dataset, in
\* sectors and airports that each hold at least one
MaxRefs == 2
MaxRefPositions == 1
DefaultPosition ==
    [frequency |-> 134150000, prefix |-> <<"E", "D">>, station_type |-> "CTR"]
RefFirs == {None, Some(<<"B">>), Some(<<"Z">>)}
Refs == [fir : RefFirs, id : {<<"P">>}]

\* the ways to cut the sequence r into consecutive non-empty groups
RECURSIVE Groupings(_)
Groupings(r) ==
    IF r = << >> THEN {<< >>}
    ELSE UNION {{<<SubSeq(r, 1, n)>> \o g : g \in Groupings(SubSeq(r, n + 1, Len(r)))} :
                    n \in 1..Len(r)}

\* the position_priority lists of m references
PriorityLists(m) == UNION {Groupings(r) : r \in [1..m -> Refs]}

\* the maps from some of Keys to sectors or airports holding at most n
\* references in all
RECURSIVE OwnerMaps(_, _)
OwnerMaps(Keys, n) ==
    IF Keys = {} \/ n = 0 THEN {EmptyMap}
    ELSE LET k == CHOOSE k \in Keys : TRUE
         IN  OwnerMaps(Keys \ {k}, n) \cup
             UNION {UNION {{(k :> [position_priority |-> pl]) @@ rest :
                                rest \in OwnerMaps(Keys \ {k}, n - m)} :
                            pl \in PriorityLists(m)} :
                        m \in 1..n}

OwnerKeys == ({"sectors"} \X FirNames \X SectorIds) \cup ({"airports"} \X FirNames \X AirportIds)

\* the (fir, id) map of the owners of one kind
OfKind(owners, kind) ==
    [k \in {<<o[2], o[3]>> : o \in {o \in DOMAIN owners : o[1] = kind}} |->
        owners[<<kind, k[1], k[2]>>]]

ReferenceInputs ==
    {[NoEntities EXCEPT !.pos = p, !.sec = OfKind(o, "sectors"), !.apt = OfKind(o, "airports")] :
        p \in FlatMaps(FirNames \X PositionIds, {DefaultPosition}, MaxRefPositions),
        o \in OwnerMaps(OwnerKeys, MaxRefs)}

InitReferences == InitFrom(ReferenceInputs)
SpecReferences == InitReferences /\ [][Next]_vars

\* reconciliation: one position id per FIR, with or without a prefix, on the
\* registry's frequency or on another; the
\* FIRs configured with the same region, with two regions, or one of them
\* not configured; a registry of at most MaxRegistry rows whose names start
\* with a position prefix or with none
MaxRegistry == 2
V8Regions == {1, 2}
V8Names == {<<"E", "_", "C">>, <<"X">>}
V8Prefixes == {<< >>, <<"E">>, <<"E", "D">>}
Vateud8Positions ==
    [region : V8Regions, name : V8Names, frequency : {134150000}, prefix : V8Prefixes]
ReconciledPositions ==
    [frequency : {134150000}, prefix : V8Prefixes, station_type : {"CTR"}]
    \cup {[frequency |-> 132305000, prefix |-> <<"E">>, station_type |-> "CTR"]}

FirConfig(region) == [vateud8_region |-> region, vateud8_ignore |-> {}]
FirConfigs ==
    {(<<"A", "B">> :> FirConfig(Some(1))) @@ (<<"B">> :> FirConfig(Some(1))),
     (<<"A", "B">> :> FirConfig(Some(1))) @@ (<<"B">> :> FirConfig(Some(2))),
     (<<"A", "B">> :> FirConfig(Some(1)))}

ReconcileInputs ==
    {[NoEntities EXCEPT !.pos = p, !.cfg = [DefaultConfig EXCEPT !.firs = c], !.reg = r] :
        p \in FlatMaps(FirNames \X {<<"P">>}, ReconciledPositions, Cardinality(FirNames)),
        c \in FirConfigs,
        r \in UNION {[1..n -> Vateud8Positions] : n \in 0..MaxRegistry}}

InitReconcile == InitFrom(ReconcileInputs)
SpecReconcile == InitReconcile /\ [][Next]_vars

\* exemptions: positions with the prefix E or D on the registry's frequency;
\* the FIR AB without a configuration entry, configured with no region, with
\* region 1, or with region 1 and its position exempt; the FIR B configured
\* with region 1 or 2; a configuration entry for Z, which has no folder; the
\* global ignore lists empty or naming region 2 and the name X; a registry of
\* at most MaxListed rows named X, E or E_ATIS
MaxListed == 2
ListedNames == {<<"X">>, <<"E">>, <<"E", "_", "A", "T", "I", "S">>}
ListedPositions ==
    [region : V8Regions, name : ListedNames, frequency : {134150000}, prefix : {<< >>}]
ExemptPositions ==
    [frequency : {134150000}, prefix : {<<"D">>, <<"E">>}, station_type : {"CTR"}]

ExemptFirConfigs ==
    {c1 @@ c2 @@ (<<"Z">> :> FirConfig(Some(2))) :
        c1 \in {EmptyMap} \cup
               {(<<"A", "B">> :> fc) :
                    fc \in {FirConfig(None), FirConfig(Some(1)),
                            [FirConfig(Some(1)) EXCEPT !.vateud8_ignore = {<<"P">>}]}},
        c2 \in {(<<"B">> :> FirConfig(Some(region))) : region \in V8Regions}}

ExemptConfigs ==
    {[vateud8 |-> [ignore_regions |-> ir, ignore_extra |-> ie], firs |-> c] :
        ir \in {{}, {2}}, ie \in {{}, {<<"X">>}}, c \in ExemptFirConfigs}

ExemptionInputs ==
    {[NoEntities EXCEPT !.pos = p, !.cfg = c, !.reg = r] :
        p \in FlatMaps(FirNames \X {<<"P">>}, ExemptPositions, Cardinality(FirNames)),
        c \in ExemptConfigs,
        r \in UNION {[1..n -> ListedPositions] : n \in 0..MaxListed}}

InitExemptions == InitFrom(ExemptionInputs)
SpecExemptions == InitExemptions /\ [][Next]_vars

\* whole runs: a dataset with volumes, positions, a sector and an airport at
\* once, at most one of its sources unreadable, one FIR configured for
\* reconciliation, the registry empty or of one row
MaxRunRefs == 1
RunVolumes ==
    {[lower_level |-> MaxFL - 1, upper_level |-> MaxFL],
     [lower_level |-> MaxFL, upper_level |-> MaxFL],
     [lower_level |-> MaxFL, upper_level |-> MaxFL + 1]}
RunPositions ==
    {[DefaultPosition EXCEPT !.prefix = <<"E">>], DefaultPosition}
RunOwnerKeys == {<<"sectors", <<"B">>, <<"S">>>>, <<"airports", <<"A", "B">>, <<"E", "D">>>>}
RunConfig == [DefaultConfig EXCEPT !.firs = (<<"A", "B">> :> FirConfig(Some(1)))]
RunRegistries ==
    {<< >>,
     <<[region |-> 2, name |-> <<"E", "_", "C">>, frequency |-> 134150000, prefix |-> << >>]>>}
Sources ==
    {<<"config">>} \cup (FirNames \X {"positions", "sectors", "volumes", "airports"})

RunInputs ==
    {[pos |-> p, sec |-> OfKind(o, "sectors"), apt |-> OfKind(o, "airports"), vol |-> v,
      cfg |-> RunConfig, reg |-> r, broken |-> b] :
        p \in FlatMaps(FirNames \X {<<"P">>}, RunPositions, Cardinality(FirNames)),
        o \in OwnerMaps(RunOwnerKeys, MaxRunRefs),
        v \in FlatMaps(FirNames \X {<<"C">>}, RunVolumes, Cardinality(FirNames)),
        r \in RunRegistries,
        b \in {{}} \cup {{x} : x \in Sources}}

Init == InitFrom(RunInputs)
Spec == Init /\ [][Next]_vars

(***************************************************************************)
(* Properties                                                              *)
(***************************************************************************)
\* how often e occurs in the sequence s
Count(s, e) == Cardinality({i \in DOMAIN s : s[i] = e})

\* run_checks has returned: errs is its result
ChecksDone == pc \in {"log_checks", "fetch", "fetch_panicked", "phase_a", "log_v8", "done"}

\* check has returned: v8_errs is its result
V8Done == pc \in {"log_v8", "done"}

VolumeKeys == EntityKeys(open_data, "volumes")
VolumeOf(k) == open_data.firs[k[1]].volumes[k[2]]
LowerLevelGreater(k) == <<"InvalidVolume", k[1], k[2], "LowerLevelGreater">>
UpperLevelTooHigh(k) == <<"InvalidVolume", k[1], k[2], "UpperLevelMaximum">>

\* C2 as claimed: the two conditions are evaluated independently, so a volume
\* with lower_level >= upper_level is reported LowerLevelGreater and a volume
\* with upper_level > 999 is reported UpperLevelTooHigh, both when both hold.
C2_Independent ==
    ChecksDone =>
        \A k \in VolumeKeys :
            /\ VolumeOf(k).lower_level >= VolumeOf(k).upper_level
                   => Count(errs, LowerLevelGreater(k)) = 1
            /\ VolumeOf(k).upper_level > 999
                   => Count(errs, UpperLevelTooHigh(k)) = 1

\* C2 amended: the check stops at a volume's first failing condition.
\* LowerLevelGreater is emitted exactly for the volumes with
\* lower_level >= upper_level, UpperLevelTooHigh exactly for those with
\* lower_level < upper_level and upper_level > 999; a volume with
\* lower_level >= upper_level and upper_level > 999 yields LowerLevelGreater only.
C2_FirstFailure ==
    ChecksDone =>
        \A k \in VolumeKeys :
            /\ Count(errs, LowerLevelGreater(k)) =
                   (IF VolumeOf(k).lower_level >= VolumeOf(k).upper_level THEN 1 ELSE 0)
            /\ Count(errs, UpperLevelTooHigh(k)) =
                   (IF VolumeOf(k).lower_level < VolumeOf(k).upper_level
                       /\ VolumeOf(k).upper_level > 999 THEN 1 ELSE 0)

\* a checked volume failing both conditions (lower 1001, upper 1000), reported once
C2_Witness ==
    /\ ChecksDone
    /\ \E k \in VolumeKeys :
           /\ VolumeOf(k).lower_level = 1001
           /\ VolumeOf(k).upper_level = 1000
           /\ LowerLevelGreater(k) \in Range(errs)

\* the InvalidVolume errors of volume k in the result, in order
VolumeErrorsOf(k) ==
    SelectSeq(errs, LAMBDA e : e[1] = "InvalidVolume" /\ e[2] = k[1] /\ e[3] = k[2])

\* C3: a volume with lower < upper <= 999 yields no violation; one with
\* lower >= upper and upper <= 999 yields exactly LowerLevelGreater; one with
\* lower < upper and upper > 999 yields exactly UpperLevelTooHigh.
C3_VolumeCases ==
    ChecksDone =>
        \A k \in VolumeKeys :
            LET lower == VolumeOf(k).lower_level
                upper == VolumeOf(k).upper_level
            IN  /\ (lower < upper /\ upper <= 999) => VolumeErrorsOf(k) = << >>
                /\ (lower >= upper /\ upper <= 999)
                       => VolumeErrorsOf(k) = <<LowerLevelGreater(k)>>
                /\ (lower < upper /\ upper > 999)
                       => VolumeErrorsOf(k) = <<UpperLevelTooHigh(k)>>

\* a result holding one volume of the second case and one of the third
C3_Witness ==
    /\ ChecksDone
    /\ \E k \in VolumeKeys :
           /\ VolumeOf(k).lower_level = VolumeOf(k).upper_level
           /\ VolumeOf(k).upper_level <= 999
           /\ VolumeErrorsOf(k) = <<LowerLevelGreater(k)>>
    /\ \E k \in VolumeKeys :
           /\ VolumeOf(k).lower_level < VolumeOf(k).upper_level
           /\ VolumeOf(k).upper_level > 999
           /\ VolumeErrorsOf(k) = <<UpperLevelTooHigh(k)>>

\* position_dupe_check has returned: dupe_errs is its result
DupeDone == pc \notin {"start", "load_failed", "dupe"}

PositionKeys == EntityKeys(open_data, "positions")
PositionOf(k) == open_data.firs[k[1]].positions[k[2]]
DuplicatePosition(a, b) == <<"DuplicatePosition", a[1], a[2], b[1], b[2]>>

\* p is a prefix of s
IsPrefixOf(p, s) == Len(p) <= Len(s) /\ \A i \in 1..Len(p) : s[i] = p[i]

\* C4: DuplicatePosition(A, B) is emitted, once, for exactly the ordered pairs
\* of distinct positions (by region and id) with equal frequency, equal
\* station type and prefix(A) starting with prefix(B); each direction is
\* reported on its own and no position against itself.
C4_DupePairs ==
    DupeDone =>
        /\ \A a, b \in PositionKeys :
               Count(dupe_errs, DuplicatePosition(a, b)) =
                   (IF /\ a # b
                       /\ PositionOf(a).frequency = PositionOf(b).frequency
                       /\ PositionOf(a).station_type = PositionOf(b).station_type
                       /\ IsPrefixOf(PositionOf(b).prefix, PositionOf(a).prefix)
                    THEN 1 ELSE 0)
        /\ \A i \in DOMAIN dupe_errs :
               \E a, b \in PositionKeys : dupe_errs[i] = DuplicatePosition(a, b)

\* the same id in two regions with equal frequency, type and prefix: reported
\* in both directions; and a one-directional pair in the same result
C4_Witness ==
    /\ DupeDone
    /\ \E a, b \in PositionKeys :
           /\ a[1] # b[1] /\ a[2] = b[2]
           /\ PositionOf(a) = PositionOf(b)
           /\ DuplicatePosition(a, b) \in Range(dupe_errs)
           /\ DuplicatePosition(b, a) \in Range(dupe_errs)
    /\ \E a, b \in PositionKeys :
           /\ DuplicatePosition(a, b) \in Range(dupe_errs)
           /\ DuplicatePosition(b, a) \notin Range(dupe_errs)

\* (region, id) ascending
KeyBefore(a, b) == StrLess(a[1], b[1]) \/ (a[1] = b[1] /\ StrLess(a[2], b[2]))

\* C5: the DuplicatePosition violations are ordered by the first position's
\* (region, id) ascending and, for the same first position, by the second
\* position's (region, id) ascending, whatever order the maps were iterated in.
C5_DupeOrder ==
    DupeDone =>
        \A i, j \in DOMAIN dupe_errs :
            i < j =>
                LET a1 == <<dupe_errs[i][2], dupe_errs[i][3]>>
                    b1 == <<dupe_errs[i][4], dupe_errs[i][5]>>
                    a2 == <<dupe_errs[j][2], dupe_errs[j][3]>>
                    b2 == <<dupe_errs[j][4], dupe_errs[j][5]>>
                IN  KeyBefore(a1, a2) \/ (a1 = a2 /\ KeyBefore(b1, b2))

\* a result with two violations of one first position and violations of
\* first positions of two regions
C5_Witness ==
    /\ DupeDone
    /\ \E i, j \in DOMAIN dupe_errs :
           /\ i < j
           /\ dupe_errs[i][2] = dupe_errs[j][2] /\ dupe_errs[i][3] = dupe_errs[j][3]
    /\ \E i, j \in DOMAIN dupe_errs : dupe_errs[i][2] # dupe_errs[j][2]

\* position_ref_check has returned: ref_errs is its result
RefDone == pc \notin {"start", "load_failed", "dupe", "ref"}

\* the sectors and airports of the dataset, as (kind, field, region, id)
Owners ==
    {<<"Sector", "sectors", k[1], k[2]>> : k \in EntityKeys(open_data, "sectors")}
    \cup {<<"Airport", "airports", k[1], k[2]>> : k \in EntityKeys(open_data, "airports")}

PriorityOf(o) == open_data.firs[o[3]][o[2]][o[4]].position_priority

\* the region a reference of owner o names: its own, or else the owner's
ResolvedRegion(r, o) == IF Len(r.fir) = 1 THEN r.fir[1] ELSE o[3]

\* the (region, id) pairs the references of the dataset resolve to
Targets ==
    UNION {UNION {{<<ResolvedRegion(PriorityOf(o)[g][i], o), PriorityOf(o)[g][i].id>> :
                       i \in DOMAIN PriorityOf(o)[g]} :
                   g \in DOMAIN PriorityOf(o)} :
               o \in Owners}

\* how many references of owner o resolve to t
Occurrences(o, t) ==
    Cardinality({gi \in UNION {{<<g, i>> : i \in DOMAIN PriorityOf(o)[g]} :
                                   g \in DOMAIN PriorityOf(o)} :
                    LET r == PriorityOf(o)[gi[1]][gi[2]]
                    IN  <<ResolvedRegion(r, o), r.id>> = t})

PositionExists(t) == \E k \in PositionKeys : k = t

InvalidPositionReference(o, t) ==
    <<"InvalidPositionReference", o[1], o[3], o[4], t[1], t[2]>>

\* C6: for every sector or airport and every (region, id) its references
\* resolve to, there is one InvalidPositionReference per reference when the
\* region is not in the dataset or has no position of that id, and none when
\* the position exists; every violation carries the owner's kind, region and
\* id and the resolved region and id.
C6_RefErrors ==
    RefDone =>
        /\ \A o \in Owners : \A t \in Targets :
               Count(ref_errs, InvalidPositionReference(o, t)) =
                   (IF PositionExists(t) THEN 0 ELSE Occurrences(o, t))
        /\ \A i \in DOMAIN ref_errs :
               \E o \in Owners : \E t \in Targets :
                   ref_errs[i] = InvalidPositionReference(o, t)

\* an airport with a reference that resolves in its own region and one to a
\* region that is not in the dataset: exactly the second is reported
C6_Witness ==
    /\ RefDone
    /\ \E o \in Owners : \E t, u \in Targets :
           /\ o[1] = "Airport"
           /\ Occurrences(o, t) = 1 /\ PositionExists(t) /\ t[1] = o[3]
           /\ Occurrences(o, u) = 1 /\ u[1] \notin DOMAIN open_data.firs
           /\ ref_errs = <<InvalidPositionReference(o, u)>>

\* the violations of owner o in the result, as the (region, id) they name
RefErrorsOf(o) ==
    LET es == SelectSeq(ref_errs, LAMBDA e : e[2] = o[1] /\ e[3] = o[3] /\ e[4] = o[4])
    IN  [i \in DOMAIN es |-> <<es[i][5], es[i][6]>>]

\* the unresolved references of owner o in list order, group after group
UnresolvedOf(o) ==
    LET rs == Flatten(PriorityOf(o))
        ts == [i \in DOMAIN rs |-> <<ResolvedRegion(rs[i], o), rs[i].id>>]
    IN  SelectSeq(ts, LAMBDA t : ~PositionExists(t))

\* C7: sector violations precede airport violations; within a kind the owners
\* are in ascending (region, id) order; within an owner the violations follow
\* the references of position_priority, group after group, whatever order the
\* maps were iterated in.
C7_RefOrder ==
    RefDone =>
        /\ \A i, j \in DOMAIN ref_errs :
               i < j =>
                   /\ ~(ref_errs[i][2] = "Airport" /\ ref_errs[j][2] = "Sector")
                   /\ ref_errs[i][2] = ref_errs[j][2] =>
                          ~KeyBefore(<<ref_errs[j][3], ref_errs[j][4]>>,
                                     <<ref_errs[i][3], ref_errs[i][4]>>)
        /\ \A o \in Owners : RefErrorsOf(o) = UnresolvedOf(o)

\* a sector violation followed by the violation of an airport of a region
\* that sorts before the sector's
C7_Witness ==
    /\ RefDone
    /\ Len(ref_errs) = 2
    /\ ref_errs[1][2] = "Sector"
    /\ ref_errs[2][2] = "Airport"
    /\ StrLess(ref_errs[2][3], ref_errs[1][3])

\* the part of a name before its first underscore
NameHead(name) ==
    LET us == {i \in DOMAIN name : name[i] = "_"}
    IN  IF us = {} THEN name
        ELSE SubSeq(name, 1, (CHOOSE i \in us : \A j \in us : i <= j) - 1)

\* the positions Phase A looks up: those of the FIRs configured with a
\* region, less the exempt ones, as (region, id)
ReconciledKeys ==
    {k \in PositionKeys :
        /\ k[1] \in DOMAIN open_data.config.firs
        /\ open_data.config.firs[k[1]].vateud8_region # << >>
        /\ k[2] \notin open_data.config.firs[k[1]].vateud8_ignore}

ExpectedRegion(k) == open_data.config.firs[k[1]].vateud8_region[1]
NotFound(k) == <<"NotFound", k[1], k[2]>>

\* the match as the claim C8 states it
ClaimedMatch(e, p) ==
    /\ e.frequency = p.frequency
    /\ \/ (e.prefix # << >> /\ IsPrefixOf(e.prefix, p.prefix))
       \/ IsPrefixOf(p.prefix, NameHead(e.name))

\* the match with the prefix tests as the code makes them
PrefixMatch(e, p) ==
    /\ e.frequency = p.frequency
    /\ \/ (e.prefix # << >> /\ IsPrefixOf(p.prefix, e.prefix))
       \/ IsPrefixOf(NameHead(e.name), p.prefix)

\* C8 as claimed: an entry E matches a position P exactly when the
\* frequencies are equal and either E.prefix is non-empty and a prefix of
\* P.prefix, or P.prefix is a prefix of the part of E.name before its first
\* underscore; so a looked-up position is NotFound exactly when no entry of
\* the list matches it in that sense.
C8_ClaimedMatch ==
    V8Done =>
        \A k \in ReconciledKeys :
            (NotFound(k) \in Range(v8_errs))
                <=> ~\E i \in DOMAIN registry : ClaimedMatch(registry[i], PositionOf(k))

\* C8 amended: E matches P exactly when the frequencies are equal and either
\* E.prefix is non-empty and P.prefix is a prefix of E.prefix, or the part of
\* E.name before its first underscore is a prefix of P.prefix; a looked-up
\* position is NotFound exactly when no entry of the list matches it.
C8_PrefixMatch ==
    V8Done =>
        \A k \in ReconciledKeys :
            (NotFound(k) \in Range(v8_errs))
                <=> ~\E i \in DOMAIN registry : PrefixMatch(registry[i], PositionOf(k))

\* a one-entry list whose entry has the longer prefix and a name that starts
\* with no position prefix: the position (prefix E, entry prefix ED) is found
C8_Witness ==
    /\ V8Done
    /\ Len(registry) = 1
    /\ \E k \in ReconciledKeys :
           /\ PositionOf(k).frequency = registry[1].frequency
           /\ PositionOf(k).prefix = <<"E">>
           /\ registry[1].prefix = <<"E", "D">>
           /\ registry[1].name = <<"X">>
           /\ NotFound(k) \notin Range(v8_errs)

\* the Phase A violations of position k in the result
PhaseAErrorsOf(k) ==
    SelectSeq(v8_errs, LAMBDA e : e[1] \in {"NotFound", "RegionMismatch"}
                                  /\ e[2] = k[1] /\ e[3] = k[2])

\* the indices of the entries matching position k
MatchesOf(k) == {i \in DOMAIN registry : PrefixMatch(registry[i], PositionOf(k))}
FirstMatch(k) == registry[CHOOSE i \in MatchesOf(k) : \A j \in MatchesOf(k) : i <= j]

\* C9: the first matching entry in list order alone decides a looked-up
\* position: NotFound when no entry matches, RegionMismatch with the first
\* match's region when that differs from the configured region (whatever
\* later matches say), nothing when it is the configured region; never more
\* than one Phase A violation per position.
C9_FirstMatch ==
    V8Done =>
        \A k \in ReconciledKeys :
            PhaseAErrorsOf(k) =
                (IF MatchesOf(k) = {} THEN <<NotFound(k)>>
                 ELSE IF FirstMatch(k).region # ExpectedRegion(k)
                      THEN <<<<"RegionMismatch", k[1], k[2],
                               FirstMatch(k).region, ExpectedRegion(k)>>>>
                      ELSE << >>)

\* a position whose first match has another region and whose second match
\* has the configured one: RegionMismatch
C9_Witness ==
    /\ V8Done
    /\ \E k \in ReconciledKeys :
           /\ MatchesOf(k) = {1, 2}
           /\ registry[1].region # ExpectedRegion(k)
           /\ registry[2].region = ExpectedRegion(k)
           /\ PhaseAErrorsOf(k) =
                  <<<<"RegionMismatch", k[1], k[2], registry[1].region, ExpectedRegion(k)>>>>

\* the entry passes the exclusion filters of Phase B
PassesFilters(e) ==
    /\ ~(Len(e.name) >= 5 /\ SubSeq(e.name, Len(e.name) - 4, Len(e.name))
                                = <<"_", "A", "T", "I", "S">>)
    /\ e.region \notin open_data.config.vateud8.ignore_regions
    /\ e.name \notin open_data.config.vateud8.ignore_extra

\* some position of a dataset region configured with the entry's region
\* matches the entry
HasCounterpart(e) ==
    \E k \in PositionKeys :
        /\ k[1] \in DOMAIN open_data.config.firs
        /\ open_data.config.firs[k[1]].vateud8_region = <<e.region>>
        /\ PrefixMatch(e, PositionOf(k))

\* C10: Superfluous(E.name) is emitted, once per entry, for exactly the
\* entries that pass the exclusion filters and have no matching position in
\* any dataset region configured with the entry's region.
C10_Superfluous ==
    V8Done =>
        \A n \in {registry[i].name : i \in DOMAIN registry} :
            Count(v8_errs, <<"Superfluous", n>>) =
                Cardinality({i \in DOMAIN registry :
                                /\ registry[i].name = n
                                /\ PassesFilters(registry[i])
                                /\ ~HasCounterpart(registry[i])})

\* an entry matched only by a position of a region configured with another
\* region is Superfluous; an entry with a counterpart is not
C10_Witness ==
    /\ V8Done
    /\ Len(registry) = 2
    /\ registry[1].name # registry[2].name
    /\ HasCounterpart(registry[1])
    /\ ~HasCounterpart(registry[2])
    /\ \E k \in PositionKeys : PrefixMatch(registry[2], PositionOf(k))
    /\ SelectSeq(v8_errs, LAMBDA e : e[1] = "Superfluous") = <<<<"Superfluous", registry[2].name>>>>

\* the violations of one kind in the result of run_checks, in order
ErrorsOfKind(kind) == SelectSeq(errs, LAMBDA e : e[1] = kind)

\* the volumes that fail check_level's tests
FailingVolumes ==
    {k \in VolumeKeys : VolumeOf(k).lower_level >= VolumeOf(k).upper_level
                        \/ VolumeOf(k).upper_level > 999}

\* C1: the result of run_checks is the volume violations, then the whole
\* output of the duplicate-position check, then the whole output of the
\* reference check: each check's violations are all there whatever the
\* other checks found, and nothing else is.
C1_Concatenation ==
    ChecksDone =>
        /\ errs = ErrorsOfKind("InvalidVolume") \o ErrorsOfKind("DuplicatePosition")
                      \o ErrorsOfKind("InvalidPositionReference")
        /\ ErrorsOfKind("DuplicatePosition") = dupe_errs
        /\ ErrorsOfKind("InvalidPositionReference") = ref_errs
        /\ Len(ErrorsOfKind("InvalidVolume")) = Cardinality(FailingVolumes)
        /\ \A k \in FailingVolumes :
               \E i \in DOMAIN errs :
                   /\ errs[i][1] = "InvalidVolume"
                   /\ errs[i][2] = k[1] /\ errs[i][3] = k[2]

\* a result in which each of the three checks found a violation
C1_Witness ==
    /\ ChecksDone
    /\ ErrorsOfKind("InvalidVolume") # << >>
    /\ dupe_errs # << >>
    /\ ref_errs # << >>
    /\ Len(errs) = Len(ErrorsOfKind("InvalidVolume")) + Len(dupe_errs) + Len(ref_errs)

\* the position is not looked up by Phase A: it is exempt, or its region has
\* no configuration entry, or one that sets no external region
Exempt(k) ==
    \/ k[1] \notin DOMAIN open_data.config.firs
    \/ open_data.config.firs[k[1]].vateud8_region = << >>
    \/ k[2] \in open_data.config.firs[k[1]].vateud8_ignore

\* C11: reconciliation emits no NotFound and no RegionMismatch for a position
\* whose id is in its region's vateud8_ignore, nor for a position of a region
\* without a configuration entry or whose entry sets no vateud8_region,
\* whatever the registry holds.
C11_Exempt ==
    V8Done =>
        \A k \in PositionKeys :
            Exempt(k) =>
                \A i \in DOMAIN v8_errs :
                    v8_errs[i][1] \in {"NotFound", "RegionMismatch"}
                        => <<v8_errs[i][2], v8_errs[i][3]>> # k

\* a position listed in vateud8_ignore of a region configured with an
\* external region, matched by no entry, is not reported while the position
\* of the other region is NotFound
C11_Witness ==
    /\ V8Done
    /\ \E k, n \in PositionKeys :
           /\ k[1] \in DOMAIN open_data.config.firs
           /\ open_data.config.firs[k[1]].vateud8_region # << >>
           /\ k[2] \in open_data.config.firs[k[1]].vateud8_ignore
           /\ MatchesOf(k) = {}
           /\ PhaseAErrorsOf(k) = << >>
           /\ PhaseAErrorsOf(n) = <<NotFound(n)>>

\* one of the three exclusions of Phase B applies to the entry
Excluded(e) ==
    \/ (Len(e.name) >= 5
        /\ SubSeq(e.name, Len(e.name) - 4, Len(e.name)) = <<"_", "A", "T", "I", "S">>)
    \/ e.region \in open_data.config.vateud8.ignore_regions
    \/ e.name \in open_data.config.vateud8.ignore_extra

\* C12: reconciliation emits no Superfluous for an entry whose name ends with
\* _ATIS, or whose region is in ignore_regions, or whose name is in
\* ignore_extra, whether or not a position matches it: the Superfluous
\* violations of a name are no more than the entries of that name to which
\* none of the three applies.
C12_Excluded ==
    V8Done =>
        \A n \in {registry[i].name : i \in DOMAIN registry} :
            Count(v8_errs, <<"Superfluous", n>>) <=
                Cardinality({i \in DOMAIN registry :
                                registry[i].name = n /\ ~Excluded(registry[i])})

\* two entries without a counterpart, the first excluded by its _ATIS name
\* alone and the second by ignore_extra alone: neither is Superfluous
C12_Witness ==
    /\ V8Done
    /\ Len(registry) = 2
    /\ open_data.config.vateud8.ignore_regions = {}
    /\ registry[1].name = <<"E", "_", "A", "T", "I", "S">>
    /\ registry[2].name \in open_data.config.vateud8.ignore_extra
    /\ ~HasCounterpart(registry[1])
    /\ ~HasCounterpart(registry[2])
    /\ \A i \in DOMAIN v8_errs : v8_errs[i][1] # "Superfluous"

\* the orders in which the maps of one kind can be iterated, FIR by FIR
OrdersOf(kind) ==
    {o \in [DOMAIN open_data.firs ->
               UNION {Iter(DOMAIN open_data.firs[f][kind]) : f \in DOMAIN open_data.firs}] :
        \A f \in DOMAIN open_data.firs : o[f] \in Iter(DOMAIN open_data.firs[f][kind])}

\* the lists a run of run_checks on the dataset can return
RunChecksResults ==
    {run_checks(open_data, fo, vo, pit, sit, ait) :
        fo \in Iter(DOMAIN open_data.firs), vo \in OrdersOf("volumes"),
        pit \in positions(open_data), sit \in sectors(open_data),
        ait \in airports(open_data)}

\* the lists a run of check on the dataset and the registry can return
CheckResults ==
    {check(registry, open_data, fo, po) :
        fo \in Iter(DOMAIN open_data.firs), po \in OrdersOf("positions")}

\* C13: a second run of run_checks on the same dataset, and a second run of
\* check on the same dataset and registry, return the list the first run
\* returned, the same violations at the same indices, whatever order the maps
\* are iterated in.
C13_Deterministic ==
    /\ ChecksDone => \A r \in RunChecksResults : r = errs
    /\ V8Done => \A r \in CheckResults : r = v8_errs

\* the volume violations are in ascending (region, volume id) order
VolumeErrorsSorted ==
    \A i, j \in DOMAIN errs :
        (i < j /\ errs[i][1] = "InvalidVolume" /\ errs[j][1] = "InvalidVolume")
            => KeyBefore(<<errs[i][2], errs[i][3]>>, <<errs[j][2], errs[j][3]>>)

\* the Phase A violations are in ascending (region, position id) order
PhaseAErrorsSorted ==
    \A i, j \in DOMAIN v8_errs :
        (i < j /\ v8_errs[i][1] \in {"NotFound", "RegionMismatch"}
               /\ v8_errs[j][1] \in {"NotFound", "RegionMismatch"})
            => KeyBefore(<<v8_errs[i][2], v8_errs[i][3]>>, <<v8_errs[j][2], v8_errs[j][3]>>)

\* C14: every check over keyed collections emits its violations in ascending
\* (region, id) order of the entity concerned: the volume violations of
\* run_checks by (region, volume id), the NotFound and RegionMismatch
\* violations of check by (region, position id).
C14_SortedOutput ==
    /\ ChecksDone => VolumeErrorsSorted
    /\ V8Done => PhaseAErrorsSorted

\* the fetch is being attempted or has been
FetchReached == pc \in {"fetch", "fetch_panicked", "phase_a", "log_v8", "done"}

\* C15: in every run in which the dataset loaded, when the fetch is attempted
\* run_checks has visited every FIR and returned, and all its violations
\* (every failing volume, the duplicate and the reference violations) have
\* been written; a failed fetch leaves what was written as it is.
C15_ValidationFirst ==
    /\ FetchReached =>
           /\ visited = DOMAIN open_data.firs
           /\ errs = ErrorsOfKind("InvalidVolume") \o dupe_errs \o ref_errs
           /\ \A k \in FailingVolumes :
                  \E i \in DOMAIN errs :
                      /\ errs[i][1] = "InvalidVolume"
                      /\ errs[i][2] = k[1] /\ errs[i][3] = k[2]
           /\ Len(log) >= Len(errs)
           /\ SubSeq(log, 1, Len(errs)) = errs
    /\ pc \in {"fetch", "fetch_panicked"} => log = errs

\* a run whose fetch failed after violations of all three checks were written
C15_Witness ==
    /\ pc = "fetch_panicked"
    /\ vateud8 = << >>
    /\ ErrorsOfKind("InvalidVolume") # << >>
    /\ dupe_errs # << >>
    /\ ref_errs # << >>
    /\ log = errs

\* from_path has returned
Loaded == pc \notin {"start", "load_failed"}

EntityKinds == {"positions", "sectors", "volumes", "airports"}

\* C16: a region whose positions, sectors, volumes or airports source cannot
\* be read is in the dataset with that collection empty and its other
\* collections as their sources hold them, and the load does not fail because
\* of it: it fails only when the folder or the configuration cannot be read.
C16_DegradeToEmpty ==
    /\ pc # "start" => (pc = "load_failed" <=> ~(fs.dir_ok /\ fs.config.ok))
    /\ Loaded =>
           \A f \in DOMAIN fs.firs :
               fs.firs[f].entry_ok =>
                   /\ f \in DOMAIN open_data.firs
                   /\ \A kind \in EntityKinds :
                          open_data.firs[f][kind] =
                              (IF fs.firs[f][kind].ok THEN fs.firs[f][kind].data
                               ELSE << >>)

\* a loaded dataset with a region whose positions source is unreadable: the
\* region has no positions and has the volume its volumes source holds
C16_Witness ==
    /\ Loaded
    /\ \E f \in DOMAIN open_data.firs :
           /\ ~fs.firs[f].positions.ok
           /\ DOMAIN fs.firs[f].positions.data # {}
           /\ open_data.firs[f].positions = << >>
           /\ fs.firs[f].volumes.ok
           /\ DOMAIN open_data.firs[f].volumes # {}

\* C17: no step of run_checks or check changes the dataset, the
\* configuration or the registry list: once loaded, the OpenData (its
\* regions, positions, sectors, airports, volumes, references and
\* configuration) stays as it was loaded, so a reference without a region
\* stays without one, and the fetched list stays as fetched.
C17_ReadOnly ==
    [][/\ fs' = fs
       /\ registry' = registry
       /\ Loaded => open_data' = open_data
       /\ pc \in {"phase_a", "log_v8", "done"} => vateud8' = vateud8]_vars

\* after the reference check reported a reference that names no region, under
\* its owner's region, the reference in the dataset still names none
C17_Witness ==
    /\ RefDone
    /\ \E o \in Owners : \E g \in DOMAIN PriorityOf(o) : \E i \in DOMAIN PriorityOf(o)[g] :
           /\ PriorityOf(o)[g][i].fir = << >>
           /\ InvalidPositionReference(o, <<o[3], PriorityOf(o)[g][i].id>>) \in Range(ref_errs)
    /\ open_data = from_path(fs)[1]

\* the entries that qualify for Superfluous, in list order
Qualifying == SelectSeq(registry, LAMBDA e : PassesFilters(e) /\ ~HasCounterpart(e))

\* C18: in the list check returns no Superfluous precedes a NotFound or a
\* RegionMismatch, and the Superfluous violations are those of the qualifying
\* entries in the order of the registry list, one per entry, so an entry that
\* is twice in the list and qualifies is reported twice.
C18_PhaseOrder ==
    V8Done =>
        /\ \A i, j \in DOMAIN v8_errs :
               (i < j /\ v8_errs[i][1] = "Superfluous") => v8_errs[j][1] = "Superfluous"
        /\ SelectSeq(v8_errs, LAMBDA e : e[1] = "Superfluous") =
               [i \in DOMAIN Qualifying |-> <<"Superfluous", Qualifying[i].name>>]

\* a list holding the same qualifying entry twice: a NotFound, then the
\* entry's Superfluous twice
C18_Witness ==
    /\ V8Done
    /\ Len(registry) = 2
    /\ registry[1] = registry[2]
    /\ Len(v8_errs) = 3
    /\ v8_errs[1][1] = "NotFound"
    /\ v8_errs[2] = <<"Superfluous", registry[1].name>>
    /\ v8_errs[3] = <<"Superfluous", registry[1].name>>

\* the index of the first entry matching position k
FirstMatchIndex(k) == CHOOSE i \in MatchesOf(k) : \A j \in MatchesOf(k) : i <= j

\* the entries that are the first match of a looked-up position and have that
\* position's configured region
CleanFirstMatches ==
    {i \in DOMAIN registry :
        \E k \in ReconciledKeys :
            /\ MatchesOf(k) # {}
            /\ i = FirstMatchIndex(k)
            /\ registry[i].region = ExpectedRegion(k)}

\* C19: an entry that is the first match of a non-exempt position of a
\* configured region and has the configured region is never Superfluous: the
\* Superfluous violations of a name are no more than the entries of that name
\* that are no such first match.  (That an entry reported RegionMismatch can
\* be Superfluous as well is the case of C19_Witness.)
C19_FoundNotSuperfluous ==
    V8Done =>
        \A n \in {registry[i].name : i \in DOMAIN registry} :
            Count(v8_errs, <<"Superfluous", n>>) <=
                Cardinality({i \in DOMAIN registry :
                                registry[i].name = n /\ i \notin CleanFirstMatches})

\* one entry is the first match of a position with the configured region and
\* is not Superfluous; another is the first match of a position of a region
\* configured otherwise: RegionMismatch names its region and it is Superfluous
C19_Witness ==
    /\ V8Done
    /\ Len(registry) = 2
    /\ registry[1].name # registry[2].name
    /\ \E k1, k2 \in ReconciledKeys : \E i, j \in DOMAIN registry :
           /\ MatchesOf(k1) # {} /\ i = FirstMatchIndex(k1)
           /\ registry[i].region = ExpectedRegion(k1)
           /\ PhaseAErrorsOf(k1) = << >>
           /\ <<"Superfluous", registry[i].name>> \notin Range(v8_errs)
           /\ MatchesOf(k2) # {} /\ j = FirstMatchIndex(k2)
           /\ <<"RegionMismatch", k2[1], k2[2], registry[j].region, ExpectedRegion(k2)>>
                  \in Range(v8_errs)
           /\ <<"Superfluous", registry[j].name>> \in Range(v8_errs)

\* no region of the dataset is configured with the entry's region
NoRegionPresent(e) ==
    \A f \in DOMAIN open_data.config.firs :
        open_data.config.firs[f].vateud8_region = <<e.region>>
            => f \notin DOMAIN open_data.firs

\* C20: an entry that passes the exclusion filters and whose region is the
\* configured region of no region of the dataset (a region that is configured
\* with it but is not in the dataset does not count) is reported Superfluous,
\* whatever positions the dataset holds: the Superfluous violations of a name
\* are at least the entries of that name of this kind.
C20_UnconfiguredRegion ==
    V8Done =>
        \A n \in {registry[i].name : i \in DOMAIN registry} :
            Count(v8_errs, <<"Superfluous", n>>) >=
                Cardinality({i \in DOMAIN registry :
                                /\ registry[i].name = n
                                /\ PassesFilters(registry[i])
                                /\ NoRegionPresent(registry[i])})

\* an entry whose region is configured only for a region that is not in the
\* dataset, matched by a position of the dataset: Superfluous
C20_Witness ==
    /\ V8Done
    /\ Len(registry) = 1
    /\ PassesFilters(registry[1])
    /\ NoRegionPresent(registry[1])
    /\ \E f \in DOMAIN open_data.config.firs :
           /\ open_data.config.firs[f].vateud8_region = <<registry[1].region>>
           /\ f \notin DOMAIN open_data.firs
    /\ \E k \in PositionKeys : PrefixMatch(registry[1], PositionOf(k))
    /\ <<"Superfluous", registry[1].name>> \in Range(v8_errs)

\* the positions listed in vateud8_ignore of a region configured with an
\* external region
IgnoredKeys ==
    {k \in PositionKeys :
        /\ k[1] \in DOMAIN open_data.config.firs
        /\ open_data.config.firs[k[1]].vateud8_region # << >>
        /\ k[2] \in open_data.config.firs[k[1]].vateud8_ignore}

\* some exempt position of a region configured with the entry's region
\* matches the entry
HasIgnoredCounterpart(e) ==
    \E k \in IgnoredKeys :
        /\ open_data.config.firs[k[1]].vateud8_region = <<e.region>>
        /\ PrefixMatch(e, PositionOf(k))

\* C21: Phase B does not apply vateud8_ignore: a position listed there is
\* skipped by Phase A (no NotFound, no RegionMismatch for it) and still is a
\* counterpart in Phase B, so an entry matched by an exempt position of a
\* region configured with the entry's region is not Superfluous: the
\* Superfluous violations of a name are no more than the entries of that name
\* without such a counterpart.
C21_IgnoredCounts ==
    V8Done =>
        /\ \A k \in IgnoredKeys : PhaseAErrorsOf(k) = << >>
        /\ \A n \in {registry[i].name : i \in DOMAIN registry} :
               Count(v8_errs, <<"Superfluous", n>>) <=
                   Cardinality({i \in DOMAIN registry :
                                   registry[i].name = n
                                   /\ ~HasIgnoredCounterpart(registry[i])})

\* an entry that passes the filters and is matched by one position only, an
\* exempt one of a region configured with the entry's region: nothing is
\* reported
C21_Witness ==
    /\ V8Done
    /\ Len(registry) = 1
    /\ PassesFilters(registry[1])
    /\ HasIgnoredCounterpart(registry[1])
    /\ \A k \in PositionKeys :
           PrefixMatch(registry[1], PositionOf(k)) => k \in IgnoredKeys
    /\ v8_errs = << >>

====
